---------------------------- MODULE Spec2Model ----------------------------
(***************************************************************************)
(* A model of the Firefox DevTools MCP server:                             *)
(*   - tools/take_snapshot.ts : assignUIDs, formatSnapshot, takeSnapshot   *)
(*   - tools/evaluate_script.ts : evaluateScript                           *)
(*   - browser.ts : FirefoxBrowser (connect, getPage, goto, close)         *)
(*   - server.ts : the CallTool request handler, ensureConnected, the      *)
(*     SIGINT/SIGTERM handlers and cleanup                                 *)
(*                                                                         *)
(* JavaScript values are tagged records (Str, Num, Bool); an object is a   *)
(* function whose domain is the set of its own properties, so an absent    *)
(* property is a name outside DOMAIN.  A text is the sequence of the       *)
(* pieces the code concatenates; "\n" is always a piece of its own and the *)
(* indentation unit "  " is one piece per level.                           *)
(*                                                                         *)
(* Node.js runs one callback at a time: an action is the code that runs    *)
(* from one await on an external promise (or timer) to the next.           *)
(***************************************************************************)
EXTENDS Integers, Sequences, FiniteSets, TLC

VARIABLES
    \* ---- the tree transforms on their own (specification SpecTree)
    tphase,      \* "raw" | "annotated" | "formatted"
    tin,         \* the tree as the accessibility layer reported it
    tverbose,    \* the verbose argument
    tout,        \* the tree after assignUIDs
    tcount,      \* counter.value after assignUIDs
    ttext,       \* formatSnapshot(tout, 0)
    \* ---- FirefoxBrowser fields
    browser,     \* this.browser : a browser instance or Null
    page,        \* this.page : a page handle or Null
    connecting,  \* this.connecting
    \* ---- the environment
    open,        \* browser instances launched and not yet closed
    launched,    \* number of browser instances launched so far
    exited,      \* process.exit was called
    \* ---- one CallTool handler invocation per call
    pc,          \* where the invocation is suspended
    req,         \* request.params
    handle,      \* the page the handler obtained (const page)
    uidCounter,  \* the UIDCounter object takeSnapshot created
    snap,        \* the tree takeSnapshot received, after annotation
    resp,        \* the handler's return value
    thrown,      \* the value caught by the handler's catch (NoThrow if none)
    log,         \* the delegated operations the invocation has invoked
    created,     \* the browser instance the invocation's connect() launched
    closing,     \* the instance whose close() connect()'s catch awaits
    connErr,     \* the error connect()'s catch block holds
    \* ---- one signal handler invocation per signal
    sigpc,       \* where the signal handler is suspended
    sigtarget,   \* the browser instance whose close() it awaits
    \* ---- one direct caller of FirefoxBrowser.close() per closer
    closepc,     \* where the close() invocation is suspended
    closetarget  \* the browser instance whose close() it awaits

treeVars == <<tphase, tin, tverbose, tout, tcount, ttext>>
browserVars == <<browser, page, connecting>>
envVars == <<open, launched, exited>>
callVars ==
    <<pc, req, handle, uidCounter, snap, resp, thrown, log, created, closing, connErr>>
sigVars == <<sigpc, sigtarget>>
closeVars == <<closepc, closetarget>>
vars == <<treeVars, browserVars, envVars, callVars, sigVars, closeVars>>

-----------------------------------------------------------------------------
(* Bounds *)

\* Largest number of nodes of an input tree of SpecTree.
MaxNodes == 3
\* Number of tool calls the server receives.
MaxCalls == 2
\* Number of browser launches the environment lets complete or fail.
MaxLaunch == 2
\* the number of direct callers of FirefoxBrowser.close()
MaxClose == 2

-----------------------------------------------------------------------------
(* JavaScript values *)

Str(s) == [t |-> "string", v |-> s]
Num(n) == [t |-> "number", v |-> n]
Bool(b) == [t |-> "boolean", v |-> b]

\* ToBoolean
TruthyVal(x) ==
    CASE x.t = "boolean" -> x.v
      [] x.t = "string"  -> x.v # ""
      [] x.t = "number"  -> x.v # 0

\* if (node.f)
Truthy(node, f) == f \in DOMAIN node /\ TruthyVal(node[f])

\* node.f === b, b a boolean
IsBool(node, f, b) ==
    f \in DOMAIN node /\ node[f].t = "boolean" /\ node[f].v = b

\* node.f === s, s a string
IsStr(node, f, s) ==
    f \in DOMAIN node /\ node[f].t = "string" /\ node[f].v = s

\* `${x}` for a string or a number
Template(x) == IF x.t = "number" THEN ToString(x.v) ELSE x.v

\* delete node.f for every f in fields
Delete(node, fields) == [f \in DOMAIN node \ fields |-> node[f]]

\* node.f = x
Assign(node, f, x) ==
    [g \in DOMAIN node \cup {f} |-> IF g = f THEN x ELSE node[g]]

EmptyObject == [f \in {} |-> Str("")]

-----------------------------------------------------------------------------
(* take_snapshot.ts : assignUIDs *)

interactiveRoles ==
    { "button", "link", "textbox", "searchbox", "checkbox", "radio",
      "combobox", "listbox", "option", "menuitem", "tab", "switch",
      "slider", "spinbutton" }

VerboseFields ==
    { "description", "keyshortcuts", "roledescription", "valuetext",
      "autocomplete", "haspopup", "invalid", "orientation" }

\* A mutant of GetsUid: every node with a role gets a uid, verbose or not.
GetsUidAlways(node, verbose) == Truthy(node, "role")
\* node.role && (interactiveRoles.includes(node.role) || verbose)
GetsUid(node, verbose) ==
    /\ Truthy(node, "role")
    /\ (node.role.v \in interactiveRoles \/ verbose)

\* A mutant of PruneVerbose: the fields are deleted only from nodes with a role.
PruneVerboseRoleOnly(node, verbose) ==
    IF ~verbose /\ "role" \in DOMAIN node THEN Delete(node, VerboseFields) ELSE node
\* if (!verbose) { delete node.description; ... }
PruneVerbose(node, verbose) ==
    IF ~verbose THEN Delete(node, VerboseFields) ELSE node

\* assignUIDs(node, verbose, counter): the node after the call and counter.value
\* after it.  The children are visited in order, each with the counter the
\* previous one left.
RECURSIVE assignUIDs(_, _, _)
RECURSIVE assignChildren(_, _, _)
assignChildren(children, verbose, counter) ==
    IF children = <<>> THEN [nodes |-> <<>>, counter |-> counter]
    ELSE LET first == assignUIDs(Head(children), verbose, counter)
             rest  == assignChildren(Tail(children), verbose, first.counter)
         IN  [nodes |-> <<first.node>> \o rest.nodes, counter |-> rest.counter]
assignUIDs(node, verbose, counter) ==
    LET eligible == GetsUid(node, verbose)
        c1 == IF eligible THEN counter + 1 ELSE counter
        n1 == IF eligible
                THEN Assign(node, "uid", Str("uid_" \o ToString(c1)))
                ELSE node
        n2 == PruneVerbose(n1, verbose)
    IN  IF "children" \in DOMAIN n2
          THEN LET kids == assignChildren(n2.children, verbose, c1)
               IN  [node |-> Assign(n2, "children", kids.nodes),
                    counter |-> kids.counter]
          ELSE [node |-> n2, counter |-> c1]

-----------------------------------------------------------------------------
(* take_snapshot.ts : formatSnapshot *)

\* s.repeat(n), as n pieces
RECURSIVE Repeat(_, _)
Repeat(s, n) == IF n <= 0 THEN <<>> ELSE <<s>> \o Repeat(s, n - 1)

\* parts.join(sep), parts a sequence of texts
RECURSIVE Join(_, _)
Join(parts, sep) ==
    IF parts = <<>> THEN <<>>
    ELSE IF Len(parts) = 1 THEN parts[1]
    ELSE parts[1] \o <<sep>> \o Join(Tail(parts), sep)

\* the sequence of the x for which the condition holds, in order
Push(cond, x) == IF cond THEN <<x>> ELSE <<>>

\* const states: string[] = []; if (node.disabled) states.push('disabled'); ...
NodeStates(node) ==
       Push(Truthy(node, "disabled"), <<"disabled">>)
    \o Push(IsBool(node, "checked", TRUE), <<"checked">>)
    \o Push(IsStr(node, "checked", "mixed"), <<"mixed">>)
    \o Push(IsBool(node, "expanded", TRUE), <<"expanded">>)
    \o Push(IsBool(node, "expanded", FALSE), <<"collapsed">>)
    \o Push(Truthy(node, "selected"), <<"selected">>)
    \o Push(Truthy(node, "focused"), <<"focused">>)
    \o Push(Truthy(node, "required"), <<"required">>)
    \o Push(Truthy(node, "readonly"), <<"readonly">>)

\* const parts: string[] = []; if (node.uid) parts.push(`[${node.uid}]`); ...
NodeParts(node) ==
    LET states == NodeStates(node)
    IN     Push(Truthy(node, "uid"), <<"[", Template(node.uid), "]">>)
        \o Push(Truthy(node, "role"), <<Template(node.role)>>)
        \o Push(Truthy(node, "name"), <<"\"", Template(node.name), "\"">>)
        \o Push(Truthy(node, "value"), <<"value=\"", Template(node.value), "\"">>)
        \o Push(Len(states) > 0, <<"(">> \o Join(states, ", ") \o <<")">>)

\* A mutant of ChildDepth: the children are rendered at their parent's depth.
ChildDepthSame(depth) == depth
\* formatSnapshot(child, depth + 1)
ChildDepth(depth) == depth + 1

RECURSIVE formatSnapshot(_, _)
RECURSIVE formatChildren(_, _)
formatChildren(children, depth) ==
    IF children = <<>> THEN <<>>
    ELSE formatSnapshot(Head(children), ChildDepth(depth))
         \o formatChildren(Tail(children), depth)
formatSnapshot(node, depth) ==
    LET indent == Repeat("  ", depth)
        parts  == NodeParts(node)
        own    == IF Len(parts) > 0
                    THEN indent \o Join(parts, " ") \o <<"\n">>
                    ELSE <<>>
    IN  IF "children" \in DOMAIN node /\ Len(node.children) > 0
          THEN own \o formatChildren(node.children, depth)
          ELSE own

-----------------------------------------------------------------------------
(* The input trees of SpecTree: every tree of at most MaxNodes nodes whose   *)
(* nodes carry one of the attribute sets below.  The accessibility layer     *)
(* reports no uid, and omits children from a node that has none.             *)

NodeAttrs ==
    { EmptyObject,
      [role |-> Str("button"), name |-> Str("Sign in"), disabled |-> Bool(TRUE),
       description |-> Str("Signs you in")],
      [role |-> Str("heading"), name |-> Str("Title"), level |-> Num(1),
       roledescription |-> Str("title")],
      [expanded |-> Bool(FALSE), disabled |-> Bool(FALSE),
       keyshortcuts |-> Str("Alt+M")],
      [role |-> Str(""), value |-> Num(0), checked |-> Bool(FALSE),
       selected |-> Bool(FALSE), invalid |-> Str("false")],
      [role |-> Str("checkbox"), value |-> Str("on"), checked |-> Str("mixed"),
       haspopup |-> Str("menu")] }

RECURSIVE TreesOfSize(_)
RECURSIVE ForestsOfSize(_)
ForestsOfSize(m) ==
    IF m = 0 THEN { <<>> }
    ELSE UNION { { <<t>> \o f : t \in TreesOfSize(k), f \in ForestsOfSize(m - k) }
                 : k \in 1..m }
TreesOfSize(n) ==
    { IF f = <<>> THEN a ELSE Assign(a, "children", f)
      : a \in NodeAttrs, f \in ForestsOfSize(n - 1) }

InputTrees == UNION { TreesOfSize(n) : n \in 1..MaxNodes }

-----------------------------------------------------------------------------
(* SpecTree: assignUIDs then formatSnapshot on an arbitrary input tree, as   *)
(* takeSnapshot runs them.                                                   *)

NoTree == [absent |-> TRUE]
Null == 0

\* The server at rest; SpecTree leaves it there.
ServerIdle ==
    /\ browser = Null /\ page = Null /\ connecting = FALSE
    /\ open = {} /\ launched = 0 /\ exited = FALSE
    /\ pc = <<>> /\ req = <<>> /\ handle = <<>> /\ uidCounter = <<>>
    /\ snap = <<>> /\ resp = <<>> /\ thrown = <<>> /\ log = <<>>
    /\ created = <<>> /\ closing = <<>> /\ connErr = <<>>
    /\ sigpc = <<>> /\ sigtarget = <<>>
    /\ closepc = <<>> /\ closetarget = <<>>

InitTree ==
    /\ tphase = "raw"
    /\ tin \in InputTrees
    /\ tverbose \in BOOLEAN
    /\ tout = NoTree
    /\ tcount = 0
    /\ ttext = <<>>
    /\ ServerIdle

\* assignUIDs(snapshot, args.verbose || false, uidCounter), uidCounter.value = 0
Annotate ==
    /\ tphase = "raw"
    /\ LET r == assignUIDs(tin, tverbose, 0)
       IN  tout' = r.node /\ tcount' = r.counter
    /\ tphase' = "annotated"
    /\ UNCHANGED <<tin, tverbose, ttext>>
    /\ UNCHANGED <<browserVars, envVars, callVars, sigVars, closeVars>>

\* const formattedText = formatSnapshot(snapshot)
Format ==
    /\ tphase = "annotated"
    /\ ttext' = formatSnapshot(tout, 0)
    /\ tphase' = "formatted"
    /\ UNCHANGED <<tin, tverbose, tout, tcount>>
    /\ UNCHANGED <<browserVars, envVars, callVars, sigVars, closeVars>>

NextTree == Annotate \/ Format

SpecTree == InitTree /\ [][NextTree]_vars

-----------------------------------------------------------------------------
(* What the claims about the tree transforms speak of *)

\* The nodes of a tree in pre-order, each with its depth.
RECURSIVE PreOrder(_, _)
RECURSIVE PreOrderAll(_, _)
PreOrderAll(children, d) ==
    IF children = <<>> THEN <<>>
    ELSE PreOrder(Head(children), d) \o PreOrderAll(Tail(children), d)
PreOrder(n, d) ==
    <<[node |-> n, depth |-> d]>>
    \o (IF "children" \in DOMAIN n THEN PreOrderAll(n.children, d + 1) ELSE <<>>)

\* The tree with the given fields removed from every node.
RECURSIVE WithoutFields(_, _)
WithoutFields(n, fields) ==
    LET m == Delete(n, fields)
    IN  IF "children" \in DOMAIN m
          THEN Assign(m, "children",
                      [i \in 1..Len(m.children) |-> WithoutFields(m.children[i], fields)])
          ELSE m

\* The lines of a text: the pieces between the "\n" pieces.
RECURSIVE SplitLines(_, _)
SplitLines(text, cur) ==
    IF text = <<>> THEN (IF cur = <<>> THEN <<>> ELSE <<cur>>)
    ELSE IF Head(text) = "\n" THEN <<cur>> \o SplitLines(Tail(text), <<>>)
    ELSE SplitLines(Tail(text), Append(cur, Head(text)))
Lines(text) == SplitLines(text, <<>>)

\* The number of indentation units a line starts with.
RECURSIVE IndentOf(_)
IndentOf(line) ==
    IF line # <<>> /\ Head(line) = "  " THEN 1 + IndentOf(Tail(line)) ELSE 0

-----------------------------------------------------------------------------
(* Claims about assignUIDs and formatSnapshot (specification SpecTree) *)

\* The eligibility rule as the claim words it, on the i-th node of the input.
EligibleAt(before, i) ==
    LET n == before[i].node
    IN  /\ "role" \in DOMAIN n
        /\ n.role # Str("")
        /\ (n.role.v \in interactiveRoles \/ tverbose)

\* The number of eligible nodes among the first i in pre-order.
RankAt(before, i) == Cardinality({ j \in 1..i : EligibleAt(before, j) })

\* C1: assignUIDs gives a uid to exactly the nodes whose role is non-empty and
\* (interactive or verbose); the uids are uid_1..uid_k in pre-order, k the
\* number of eligible nodes, which is also the counter's final value.
C1_UidsPreOrder ==
    tphase # "raw" =>
        LET before == PreOrder(tin, 0)
            after  == PreOrder(tout, 0)
        IN  /\ Len(after) = Len(before)
            /\ tcount = RankAt(before, Len(before))
            /\ \A i \in 1..Len(before) :
                  IF EligibleAt(before, i)
                    THEN /\ "uid" \in DOMAIN after[i].node
                         /\ after[i].node.uid
                              = Str("uid_" \o ToString(RankAt(before, i)))
                    ELSE "uid" \notin DOMAIN after[i].node

\* C1 witness: a non-verbose run that numbered two nodes and skipped a node
\* with a non-interactive role and a node with an empty role.
C1_Witness ==
    /\ tphase = "annotated" /\ ~tverbose /\ tcount = 2
    /\ \E e \in { PreOrder(tout, 0)[i] : i \in 1..Len(PreOrder(tout, 0)) } :
          "role" \in DOMAIN e.node /\ "uid" \notin DOMAIN e.node

\* C9: assignUIDs changes only uid and the eight verbose-only fields: with
\* uid set aside the tree is the input (verbose) or the input with the eight
\* fields removed from every node (not verbose).
C9_OnlyUidAndVerboseFields ==
    tphase # "raw" =>
        /\ tverbose => WithoutFields(tout, {"uid"}) = tin
        /\ ~tverbose =>
              /\ WithoutFields(tout, {"uid"}) = WithoutFields(tin, VerboseFields)
              /\ \A i \in 1..Len(PreOrder(tout, 0)) :
                    DOMAIN PreOrder(tout, 0)[i].node \cap VerboseFields = {}

\* C9 witness: a non-verbose run on a three-node tree in which a node without
\* a role carried a verbose-only field.
C9_Witness ==
    /\ tphase = "annotated" /\ ~tverbose
    /\ Len(PreOrder(tin, 0)) = 3
    /\ \E i \in 1..Len(PreOrder(tin, 0)) :
          LET n == PreOrder(tin, 0)[i].node
          IN  "role" \notin DOMAIN n /\ DOMAIN n \cap VerboseFields # {}

\* A flag that is absent or false.
AbsentOrFalse(n, f) == f \notin DOMAIN n \/ n[f] = Bool(FALSE)

\* The node of C5 as the claim words it: role, name and value absent, the
\* seven state flags absent or false.
BlankAsClaimed(n) ==
    /\ DOMAIN n \cap {"role", "name", "value"} = {}
    /\ \A f \in {"disabled", "checked", "expanded", "selected", "focused",
                 "required", "readonly"} : AbsentOrFalse(n, f)

\* The same, with expanded absent: expanded === false renders "collapsed".
BlankNode(n) == BlankAsClaimed(n) /\ "expanded" \notin DOMAIN n

\* A node with something to render.
HasRenderable(n) ==
    \/ \E f \in {"uid", "role", "name", "value", "disabled", "selected",
                 "focused", "required", "readonly"} : Truthy(n, f)
    \/ "checked" \in DOMAIN n /\ n.checked \in {Bool(TRUE), Str("mixed")}
    \/ "expanded" \in DOMAIN n

RenderableEntry(e) == HasRenderable(e.node)

\* For every node of the annotated tree that Blank describes: the text
\* formatSnapshot renders for it at its depth holds no line of the node's own
\* (each line is the line of a renderable descendant, in pre-order), and each
\* of those lines is indented by the descendant's own depth.
NoOwnLine(Blank(_)) ==
    tphase # "raw" =>
        \A i \in 1..Len(PreOrder(tout, 0)) :
            LET e    == PreOrder(tout, 0)[i]
                ls   == Lines(formatSnapshot(e.node, e.depth))
                desc == SelectSeq(PreOrder(e.node, e.depth), RenderableEntry)
            IN  Blank(e.node) =>
                  /\ Len(ls) = Len(desc)
                  /\ \A k \in 1..Len(ls) :
                        /\ desc[k].depth > e.depth
                        /\ IndentOf(ls[k]) = desc[k].depth
                        /\ Len(ls[k]) > desc[k].depth

\* C5 as stated: a node whose role, name and value are absent and whose state
\* flags are absent or false emits no line of its own, and its renderable
\* children emit their lines at their own depth.
C5_AsClaimed == NoOwnLine(BlankAsClaimed)

\* C5 amended: the same for a node whose expanded flag is absent (not false).
C5_BlankNodeNoLine == NoOwnLine(BlankNode)

\* C5 witness: the formatted tree has a blank node below the root with a
\* renderable child, and the text has a line indented by two levels.
C5_Witness ==
    /\ tphase = "formatted"
    /\ \E i \in 1..Len(PreOrder(tout, 0)) :
          LET e == PreOrder(tout, 0)[i]
          IN  /\ e.depth = 1 /\ BlankNode(e.node)
              /\ "children" \in DOMAIN e.node
              /\ HasRenderable(e.node.children[1])
    /\ \E k \in 1..Len(Lines(ttext)) : IndentOf(Lines(ttext)[k]) = 2

-----------------------------------------------------------------------------
(* The server: values *)

Calls == 1..MaxCalls
Signals == {"SIGINT", "SIGTERM"}
Closers == 1..MaxClose

NoReq == [none |-> TRUE]
NoResp == [none |-> TRUE]
NoThrow == [none |-> TRUE]

\* new Error(message)
Err(m) == [isError |-> TRUE, message |-> m]
\* a thrown value that is not an Error
Raw(x) == [isError |-> FALSE, value |-> x]

\* const DEFAULT_NAVIGATION_TIMEOUT = 30000
DEFAULT_NAVIGATION_TIMEOUT == 30000

\* new URL(url): the URLs of the model and what the parser makes of them.
URLParse(url) ==
    CASE url = "https://a.test/"    -> [ok |-> TRUE, protocol |-> "https:"]
      [] url = "http://a.test/"     -> [ok |-> TRUE, protocol |-> "http:"]
      [] url = "ftp://example.com"  -> [ok |-> TRUE, protocol |-> "ftp:"]
      [] OTHER                      -> [ok |-> FALSE, protocol |-> ""]

\* error.message.includes(needle), for the messages of the model
Includes(message, needle) ==
    <<message, needle>> \in
        { <<"page.goto: Timeout 30000ms exceeded.", "Timeout">>,
          <<"page.goto: net::ERR_NAME_NOT_RESOLVED", "net::">> }

\* What the delegated operations can fail with.
LaunchErrors == { Err("browserType.launch: Executable doesn't exist") }
NewPageErrors == { Err("browser.newPage: Protocol error") }
GotoErrors ==
    { Err("page.goto: Timeout 30000ms exceeded."),
      Err("page.goto: net::ERR_NAME_NOT_RESOLVED"),
      Err("page.goto: Navigation failed"),
      Raw(Str("aborted")) }
SnapshotErrors == { Err("accessibility.snapshot: Target closed") }
EvaluateErrors == { Err("page.evaluate: ReferenceError: x is not defined") }

\* What page.accessibility.snapshot() can resolve to: null or a tree.
SnapshotResults ==
    { NoTree,
      [role |-> Str("link"), name |-> Str("Skip to content")],
      [role |-> Str("document"), name |-> Str("Login"),
       description |-> Str("Login page"),
       children |->
          << [role |-> Str("heading"), name |-> Str("Title"), level |-> Num(1)],
             [role |-> Str("button"), name |-> Str("Sign in"),
              disabled |-> Bool(TRUE)] >>] }

\* What page.evaluate(script) can resolve to.
Undefined == [t |-> "undefined"]
EvaluateResults == { Num(2), Undefined }

\* JSON.stringify(result, null, 2) inside a template literal
Serialize(result) ==
    IF result.t = "undefined" THEN "undefined" ELSE ToString(result.v)

\* The requests of the model (request.params).
Requests ==
    { [name |-> "take_snapshot"],
      [name |-> "take_snapshot",
       arguments |-> [url |-> Str("https://a.test/"), verbose |-> Bool(TRUE)]],
      [name |-> "take_snapshot", arguments |-> [url |-> Str("ftp://example.com")]],
      [name |-> "take_snapshot", arguments |-> [url |-> Str("not a url")]],
      [name |-> "take_snapshot", arguments |-> [url |-> Str("")]],
      [name |-> "evaluate_script", arguments |-> [script |-> Str("1+1")]],
      [name |-> "evaluate_script",
       arguments |-> [script |-> Str(""), url |-> Str("http://a.test/")]],
      [name |-> "evaluate_script", arguments |-> [url |-> Str("https://a.test/")]],
      [name |-> "evaluate_script",
       arguments |-> [script |-> Str("1+1"), url |-> Str("ftp://example.com")]],
      [name |-> "click", arguments |-> EmptyObject] }

-----------------------------------------------------------------------------
(* take_snapshot.ts, evaluate_script.ts : the zod schemas *)

\* A mutant of UrlIssue: the schema accepts any url.
UrlIssueNever(args) == FALSE
\* url: z.string().url().optional()
UrlIssue(args) ==
    /\ "url" \in DOMAIN args
    /\ (args.url.t # "string" \/ ~URLParse(args.url.v).ok)

\* verbose: z.boolean().optional()
VerboseIssue(args) == "verbose" \in DOMAIN args /\ args.verbose.t # "boolean"

\* script: z.string()
ScriptIssue(args) == "script" \notin DOMAIN args \/ args.script.t # "string"

\* ZodError.message: the issues, one after the other
RECURSIVE ZodMessage(_)
ZodMessage(issues) ==
    IF issues = <<>> THEN "ZodError:"
    ELSE ZodMessage(SubSeq(issues, 1, Len(issues) - 1))
         \o " [" \o issues[Len(issues)] \o "]"

\* schema.parse(args): the validated object, or the ZodError's message
Parse(args, keys, issues) ==
    [ok |-> issues = <<>>,
     data |-> [k \in DOMAIN args \cap keys |-> args[k]],
     message |-> ZodMessage(issues)]

\* takeSnapshotSchema.parse(args || {})
ParseTakeSnapshot(args) ==
    Parse(args, {"url", "verbose"},
          Push(UrlIssue(args), "url: Invalid url")
          \o Push(VerboseIssue(args), "verbose: Expected boolean"))

\* evaluateScriptSchema.parse(args || {})
ParseEvaluateScript(args) ==
    Parse(args, {"script", "url"},
          Push(ScriptIssue(args), "script: Required")
          \o Push(UrlIssue(args), "url: Invalid url"))

-----------------------------------------------------------------------------
(* server.ts : the CallTool handler, as a function of the invocation's frame. *)
(* A frame holds the invocation's locals (id, req, pc, handle, snap, resp,    *)
(* thrown, log) and the UIDCounter objects (counters).                        *)

\* error instanceof Error ? error.message : String(error)
ErrorMessage(e) == IF e.isError THEN e.message ELSE Template(e.value)

\* A mutant of Caught: the error payload without the error flag.
CaughtNoFlag(e) ==
    [content |-> <<[type |-> "text", text |-> <<"Error: ", ErrorMessage(e)>>]>>]
\* catch (error) { return { content: [...`Error: ${errorMessage}`], isError: true } }
Caught(e) ==
    [content |-> <<[type |-> "text", text |-> <<"Error: ", ErrorMessage(e)>>]>>,
     isError |-> TRUE]

\* return { content: [{ type: 'text', text: result }] }
Returned(text) == [content |-> <<[type |-> "text", text |-> text]>>]

\* An error thrown inside the handler's try block.
Throw(f, e) == [f EXCEPT !.pc = "done", !.thrown = e, !.resp = Caught(e)]

\* The tool handler returned.
Return(f, text) == [f EXCEPT !.pc = "done", !.resp = Returned(text)]

\* A mutant of CounterOf: one counter object shared by all invocations.
CounterShared(id) == 1
\* const uidCounter: UIDCounter = { value: 0 } : an object of the invocation's own
CounterOf(id) == id

\* takeSnapshot from "Create UID counter" to the await of the snapshot
SnapshotStart(f) ==
    [f EXCEPT !.counters = [@ EXCEPT ![CounterOf(f.id)] = 0],
              !.log = @ \cup {"snapshot"},
              !.pc = "snapshotting"]

\* evaluateScript up to the await of page.evaluate(args.script)
EvaluateStart(f) ==
    [f EXCEPT !.log = @ \cup {"evaluate"}, !.pc = "evaluating"]

\* What follows await browser.goto(args.url) in the two tools.
AfterGoto(f) ==
    IF f.req.name = "take_snapshot" THEN SnapshotStart(f) ELSE EvaluateStart(f)

\* A mutant of ProtocolAllowed: every protocol is let through.
ProtocolAllowedAny(protocol) == TRUE
\* ['http:', 'https:'].includes(parsedUrl.protocol)
ProtocolAllowed(protocol) == protocol \in {"http:", "https:"}

\* FirefoxBrowser.goto up to the await of page.goto; pg is this.page.
Goto(f, url, pg) ==
    IF pg = Null
      THEN Throw(f, Err("Firefox not connected. Call connect() first."))
    ELSE IF ~URLParse(url).ok
      THEN Throw(f, Err("Invalid URL format: " \o url))
    ELSE IF ~ProtocolAllowed(URLParse(url).protocol)
      THEN Throw(f, Err("Invalid protocol: " \o URLParse(url).protocol
                        \o ". Only HTTP and HTTPS are supported."))
    ELSE [f EXCEPT !.log = @ \cup {"goto"}, !.pc = "navigating"]

\* The catch around page.goto: the error goto throws for the page's error e.
GotoError(e, url) ==
    IF ~e.isError THEN e
    ELSE IF Includes(e.message, "Timeout")
      THEN Err("Navigation timeout after " \o ToString(DEFAULT_NAVIGATION_TIMEOUT)
               \o "ms for " \o url)
    ELSE IF Includes(e.message, "net::")
      THEN Err("Network error navigating to " \o url \o ": " \o e.message)
    ELSE Err("Failed to navigate to " \o url \o ": " \o e.message)

\* The tool handler's start: if (args.url) { await browser.goto(args.url) } ...
ToolStart(f, args, pg) ==
    IF Truthy(args, "url") THEN Goto(f, args.url.v, pg) ELSE AfterGoto(f)

\* args || {}
ArgsOf(r) == IF "arguments" \in DOMAIN r THEN r.arguments ELSE EmptyObject

\* The validated arguments of a request of one of the two tools.
Validated(r) ==
    IF r.name = "take_snapshot" THEN ParseTakeSnapshot(ArgsOf(r))
    ELSE ParseEvaluateScript(ArgsOf(r))

\* The handler from "const page = this.firefoxBrowser.getPage()" to the tool
\* handler's first await; pg is this.page.
Dispatch(f, pg) ==
    IF pg = Null
      THEN Throw(f, Err("Firefox not connected. Call connect() first."))
    ELSE IF f.req.name \in {"take_snapshot", "evaluate_script"}
      THEN IF Validated(f.req).ok
             THEN ToolStart([f EXCEPT !.handle = pg], Validated(f.req).data, pg)
             ELSE Throw([f EXCEPT !.handle = pg], Err(Validated(f.req).message))
    ELSE Throw([f EXCEPT !.handle = pg], Err("Unknown tool: " \o f.req.name))

\* takeSnapshot after the await of the snapshot
SnapshotDone(f, tree) ==
    IF tree = NoTree
      THEN Return(f, <<"No accessibility tree available for this page.">>)
    ELSE LET verbose == Truthy(Validated(f.req).data, "verbose")
             r == assignUIDs(tree, verbose, f.counters[CounterOf(f.id)])
             summary == <<"Accessibility Snapshot (", ToString(r.counter),
                          " interactive elements)", "\n">>
             separator == Repeat("=", 60) \o <<"\n">>
         IN  Return([f EXCEPT !.counters = [@ EXCEPT ![CounterOf(f.id)] = r.counter],
                              !.snap = r.node],
                    summary \o separator \o formatSnapshot(r.node, 0))

\* evaluateScript after the await of page.evaluate
EvaluateDone(f, result) ==
    Return(f, <<"Script executed successfully:", "\n", "\n", Serialize(result)>>)

-----------------------------------------------------------------------------
(* The server: actions *)

Frame(c) ==
    [id |-> c, req |-> req[c], pc |-> pc[c], handle |-> handle[c],
     snap |-> snap[c], resp |-> resp[c], thrown |-> thrown[c], log |-> log[c],
     counters |-> uidCounter]

Commit(f) ==
    /\ pc' = [pc EXCEPT ![f.id] = f.pc]
    /\ req' = [req EXCEPT ![f.id] = f.req]
    /\ handle' = [handle EXCEPT ![f.id] = f.handle]
    /\ snap' = [snap EXCEPT ![f.id] = f.snap]
    /\ resp' = [resp EXCEPT ![f.id] = f.resp]
    /\ thrown' = [thrown EXCEPT ![f.id] = f.thrown]
    /\ log' = [log EXCEPT ![f.id] = f.log]
    /\ uidCounter' = f.counters

Init ==
    /\ tphase = "unused" /\ tin = NoTree /\ tverbose = FALSE
    /\ tout = NoTree /\ tcount = 0 /\ ttext = <<>>
    /\ browser = Null /\ page = Null /\ connecting = FALSE
    /\ open = {} /\ launched = 0 /\ exited = FALSE
    /\ pc = [c \in Calls |-> "idle"]
    /\ req = [c \in Calls |-> NoReq]
    /\ handle = [c \in Calls |-> Null]
    /\ uidCounter = [c \in Calls |-> 0]
    /\ snap = [c \in Calls |-> NoTree]
    /\ resp = [c \in Calls |-> NoResp]
    /\ thrown = [c \in Calls |-> NoThrow]
    /\ log = [c \in Calls |-> {}]
    /\ created = [c \in Calls |-> Null]
    /\ closing = [c \in Calls |-> Null]
    /\ connErr = [c \in Calls |-> NoThrow]
    /\ sigpc = [s \in Signals |-> "idle"]
    /\ sigtarget = [s \in Signals |-> Null]
    /\ closepc = [k \in Closers |-> "idle"]
    /\ closetarget = [k \in Closers |-> Null]

\* A mutant of ShouldWait: connect() does not look at the connecting flag.
ShouldWaitNever(flag) == FALSE
\* if (this.connecting) { while (this.connecting) await ...; }
ShouldWait(flag) == flag

\* ensureConnected and connect() up to their first await, then the rest of the
\* handler if no await was needed.
Connect(f) ==
    IF page # Null
      THEN /\ Commit(Dispatch(f, page))
           /\ UNCHANGED browserVars
    ELSE IF ShouldWait(connecting)
      THEN /\ Commit([f EXCEPT !.pc = "waiting"])
           /\ UNCHANGED browserVars
    ELSE /\ connecting' = TRUE
         /\ Commit([f EXCEPT !.pc = "launching"])
         /\ UNCHANGED <<browser, page>>

\* The server receives a tools/call request.
Start(c, r) ==
    /\ ~exited
    /\ pc[c] = "idle"
    /\ (IF c = 1 THEN TRUE ELSE pc[c - 1] # "idle")
    /\ Connect([Frame(c) EXCEPT !.req = r])
    /\ UNCHANGED <<treeVars, envVars, created, closing, connErr, sigVars, closeVars>>

\* The 100 ms timer of the wait loop fires and the loop ends.
WaitTick(c) ==
    /\ ~exited
    /\ pc[c] = "waiting"
    /\ ~connecting
    /\ IF page # Null
         THEN /\ Commit(Dispatch(Frame(c), page))
              /\ UNCHANGED browserVars
         ELSE /\ connecting' = TRUE
              /\ Commit([Frame(c) EXCEPT !.pc = "launching"])
              /\ UNCHANGED <<browser, page>>
    /\ UNCHANGED <<treeVars, envVars, created, closing, connErr, sigVars, closeVars>>

\* A mutant of AfterCleanup: the catch block keeps the closed browser.
AfterCleanupKept(b) == b
\* this.browser = null, in connect()'s catch
AfterCleanup(b) == Null

\* connect()'s catch block, entered with error e: it awaits the close of the
\* browser it holds, or rethrows at once (finally: connecting = false).
ConnectCatch(c, e) ==
    IF browser # Null
      THEN /\ closing' = [closing EXCEPT ![c] = browser]
           /\ connErr' = [connErr EXCEPT ![c] = e]
           /\ Commit([Frame(c) EXCEPT !.pc = "cleanupClose"])
           /\ UNCHANGED browserVars
      ELSE /\ connecting' = FALSE
           /\ Commit(Throw(Frame(c), e))
           /\ UNCHANGED <<browser, page, closing, connErr>>

\* firefox.launch resolves; this.browser.newPage() is called.
LaunchOk(c) ==
    /\ ~exited
    /\ pc[c] = "launching"
    /\ launched < MaxLaunch
    /\ launched' = launched + 1
    /\ open' = open \cup {launched + 1}
    /\ browser' = launched + 1
    /\ created' = [created EXCEPT ![c] = launched + 1]
    /\ Commit([Frame(c) EXCEPT !.pc = "newPage"])
    /\ UNCHANGED <<treeVars, page, connecting, exited, closing, connErr, sigVars, closeVars>>

\* firefox.launch rejects.
LaunchFail(c, e) ==
    /\ ~exited
    /\ pc[c] = "launching"
    /\ ConnectCatch(c, e)
    /\ UNCHANGED <<treeVars, envVars, created, sigVars, closeVars>>

\* newPage resolves: connect() returns the page and the handler goes on.
NewPageOk(c) ==
    /\ ~exited
    /\ pc[c] = "newPage"
    /\ page' = created[c]
    /\ connecting' = FALSE
    /\ Commit(Dispatch(Frame(c), created[c]))
    /\ UNCHANGED <<treeVars, browser, envVars, created, closing, connErr, sigVars, closeVars>>

\* newPage rejects.
NewPageFail(c, e) ==
    /\ ~exited
    /\ pc[c] = "newPage"
    /\ ConnectCatch(c, e)
    /\ UNCHANGED <<treeVars, envVars, created, sigVars, closeVars>>

\* The close() awaited in connect()'s catch settles (a rejection is swallowed):
\* the instance is closed, the field dropped and the error rethrown.
CleanupCloseDone(c) ==
    /\ ~exited
    /\ pc[c] = "cleanupClose"
    /\ open' = open \ {closing[c]}
    /\ browser' = AfterCleanup(browser)
    /\ connecting' = FALSE
    /\ Commit(Throw(Frame(c), connErr[c]))
    /\ UNCHANGED <<treeVars, page, launched, exited, created, closing, connErr, sigVars, closeVars>>

\* page.goto resolves.
NavOk(c) ==
    /\ ~exited
    /\ pc[c] = "navigating"
    /\ Commit(AfterGoto(Frame(c)))
    /\ UNCHANGED <<treeVars, browserVars, envVars, created, closing, connErr, sigVars, closeVars>>

\* page.goto rejects.
NavFail(c, e) ==
    /\ ~exited
    /\ pc[c] = "navigating"
    /\ Commit(Throw(Frame(c), GotoError(e, Validated(req[c]).data.url.v)))
    /\ UNCHANGED <<treeVars, browserVars, envVars, created, closing, connErr, sigVars, closeVars>>

\* page.accessibility.snapshot() resolves.
SnapshotOk(c, tree) ==
    /\ ~exited
    /\ pc[c] = "snapshotting"
    /\ Commit(SnapshotDone(Frame(c), tree))
    /\ UNCHANGED <<treeVars, browserVars, envVars, created, closing, connErr, sigVars, closeVars>>

\* page.accessibility.snapshot() rejects.
SnapshotFail(c, e) ==
    /\ ~exited
    /\ pc[c] = "snapshotting"
    /\ Commit(Throw(Frame(c), e))
    /\ UNCHANGED <<treeVars, browserVars, envVars, created, closing, connErr, sigVars, closeVars>>

\* page.evaluate resolves.
EvaluateOk(c, result) ==
    /\ ~exited
    /\ pc[c] = "evaluating"
    /\ Commit(EvaluateDone(Frame(c), result))
    /\ UNCHANGED <<treeVars, browserVars, envVars, created, closing, connErr, sigVars, closeVars>>

\* page.evaluate rejects.
EvaluateFail(c, e) ==
    /\ ~exited
    /\ pc[c] = "evaluating"
    /\ Commit(Throw(Frame(c), e))
    /\ UNCHANGED <<treeVars, browserVars, envVars, created, closing, connErr, sigVars, closeVars>>

\* if (this.firefoxBrowser.isConnected()), in cleanup()
CleanupCloses == page # Null

\* SIGINT or SIGTERM: cleanup() and, unless it has to await the browser's
\* close, process.exit(0).
Signal(s) ==
    /\ ~exited
    /\ sigpc[s] = "idle"
    /\ IF CleanupCloses /\ browser # Null
         THEN /\ sigpc' = [sigpc EXCEPT ![s] = "closing"]
              /\ sigtarget' = [sigtarget EXCEPT ![s] = browser]
              /\ UNCHANGED exited
         ELSE /\ sigpc' = [sigpc EXCEPT ![s] = "exited"]
              /\ UNCHANGED sigtarget
              /\ exited' = TRUE
    /\ UNCHANGED <<treeVars, browserVars, open, launched, callVars, closeVars>>

\* The close() awaited in FirefoxBrowser.close() resolves: the fields are
\* dropped, cleanup() returns and the process exits.
SignalCloseDone(s) ==
    /\ ~exited
    /\ sigpc[s] = "closing"
    /\ open' = open \ {sigtarget[s]}
    /\ browser' = Null
    /\ page' = Null
    /\ sigpc' = [sigpc EXCEPT ![s] = "exited"]
    /\ exited' = TRUE
    /\ UNCHANGED <<treeVars, connecting, launched, callVars, sigtarget, closeVars>>

Next ==
    \/ \E c \in Calls, r \in Requests : Start(c, r)
    \/ \E c \in Calls : WaitTick(c)
    \/ \E c \in Calls : LaunchOk(c)
    \/ \E c \in Calls, e \in LaunchErrors : LaunchFail(c, e)
    \/ \E c \in Calls : NewPageOk(c)
    \/ \E c \in Calls, e \in NewPageErrors : NewPageFail(c, e)
    \/ \E c \in Calls : CleanupCloseDone(c)
    \/ \E c \in Calls : NavOk(c)
    \/ \E c \in Calls, e \in GotoErrors : NavFail(c, e)
    \/ \E c \in Calls, tree \in SnapshotResults : SnapshotOk(c, tree)
    \/ \E c \in Calls, e \in SnapshotErrors : SnapshotFail(c, e)
    \/ \E c \in Calls, result \in EvaluateResults : EvaluateOk(c, result)
    \/ \E c \in Calls, e \in EvaluateErrors : EvaluateFail(c, e)
    \/ \E s \in Signals : Signal(s)
    \/ \E s \in Signals : SignalCloseDone(s)

Spec == Init /\ [][Next]_vars

-----------------------------------------------------------------------------
(* FirefoxBrowser under callers of connect() and of close()                *)
(* (specification SpecBrowser).  connect() is called as the server calls   *)
(* it, by a tool call that makes no further use of the page; close() is    *)
(* called directly, at any time, and the process goes on afterwards.       *)

\* A request whose handler does nothing after ensureConnected and getPage.
ConnectOnly == [name |-> "click", arguments |-> EmptyObject]

\* close() up to its await: if (this.browser) await this.browser.close();
\* otherwise it returns at once.
Close(k) ==
    /\ closepc[k] = "idle"
    /\ (IF k = 1 THEN TRUE ELSE closepc[k - 1] # "idle")
    /\ IF browser # Null
         THEN /\ closepc' = [closepc EXCEPT ![k] = "closing"]
              /\ closetarget' = [closetarget EXCEPT ![k] = browser]
         ELSE /\ closepc' = [closepc EXCEPT ![k] = "returned"]
              /\ UNCHANGED closetarget
    /\ UNCHANGED <<treeVars, browserVars, envVars, callVars, sigVars>>

\* The close() awaited in FirefoxBrowser.close() resolves: the instance is
\* closed, this.browser and this.page are dropped and close() returns.
CloseDone(k) ==
    /\ closepc[k] = "closing"
    /\ open' = open \ {closetarget[k]}
    /\ browser' = Null
    /\ page' = Null
    /\ closepc' = [closepc EXCEPT ![k] = "returned"]
    /\ UNCHANGED <<treeVars, connecting, launched, exited, callVars, sigVars,
                   closetarget>>

NextBrowser ==
    \/ \E c \in Calls : Start(c, ConnectOnly)
    \/ \E c \in Calls : WaitTick(c)
    \/ \E c \in Calls : LaunchOk(c)
    \/ \E c \in Calls, e \in LaunchErrors : LaunchFail(c, e)
    \/ \E c \in Calls : NewPageOk(c)
    \/ \E c \in Calls, e \in NewPageErrors : NewPageFail(c, e)
    \/ \E c \in Calls : CleanupCloseDone(c)
    \/ \E k \in Closers : Close(k)
    \/ \E k \in Closers : CloseDone(k)

SpecBrowser == Init /\ [][NextBrowser]_vars

-----------------------------------------------------------------------------
(* Claims about the server (specification Spec) *)

ConnectPcs == {"launching", "newPage", "cleanupClose"}

\* C2: at most one connect() is between its launch and its return at any
\* time, and as long as close() has not been called every handler that
\* obtained a page obtained the same one, the one the browser object holds.
C2_OneLaunchSamePage ==
    /\ Cardinality({ c \in Calls : pc[c] \in ConnectPcs }) <= 1
    /\ (\A s \in Signals : sigpc[s] = "idle") =>
          \A c1, c2 \in Calls :
              handle[c1] # Null /\ handle[c2] # Null =>
                  handle[c1] = handle[c2] /\ handle[c1] = page

\* C2 witness: the second call arrived before the page existed or after it, did
\* not launch a browser of its own, and both calls hold the page of the one
\* launch.
C2_Witness ==
    /\ \A s \in Signals : sigpc[s] = "idle"
    /\ handle[1] = 1 /\ handle[2] = 1
    /\ created[1] = 1 /\ created[2] = Null
    /\ pc[1] = "done" /\ pc[2] = "done"

\* The text of a response.
TextOf(r) == r.content[1].text

\* The connection errors' and the validation errors' messages.
ConnectMessages == { e.message : e \in LaunchErrors \cup NewPageErrors }
ValidationMessages ==
    { "ZodError: [url: Invalid url]",
      "ZodError: [verbose: Expected boolean]",
      "ZodError: [url: Invalid url] [verbose: Expected boolean]",
      "ZodError: [script: Required]",
      "ZodError: [script: Required] [url: Invalid url]" }

IsToolCall(r) == r.name \in {"take_snapshot", "evaluate_script"}

\* The arguments of a request fail the schema (stated on the request itself).
FailsSchema(r) ==
    LET args == IF "arguments" \in DOMAIN r THEN r.arguments ELSE EmptyObject
    IN  \/ "url" \in DOMAIN args /\ args.url.v \in {"", "not a url"}
        \/ r.name = "evaluate_script" /\ "script" \notin DOMAIN args

\* C3: a finished handler has returned a response: "Error: " and the message
\* of what was thrown, flagged, if connecting, validation, dispatch,
\* navigation, retrieval or execution failed; otherwise the tool's text,
\* unflagged.
C3_AlwaysResponds ==
    \A c \in Calls : pc[c] = "done" =>
        /\ resp[c] # NoResp
        /\ Len(resp[c].content) = 1
        /\ resp[c].content[1].type = "text"
        /\ IF thrown[c] # NoThrow
             THEN /\ "isError" \in DOMAIN resp[c] /\ resp[c].isError
                  /\ TextOf(resp[c])
                       = <<"Error: ", IF thrown[c].isError THEN thrown[c].message
                                      ELSE thrown[c].value.v>>
             ELSE /\ "isError" \notin DOMAIN resp[c]
                  /\ handle[c] # Null
                  /\ IsToolCall(req[c]) /\ ~FailsSchema(req[c])
                  /\ IF req[c].name = "take_snapshot"
                       THEN /\ "snapshot" \in log[c]
                            /\ Head(TextOf(resp[c])) \in
                                 { "Accessibility Snapshot (",
                                   "No accessibility tree available for this page." }
                       ELSE /\ "evaluate" \in log[c]
                            /\ Head(TextOf(resp[c])) = "Script executed successfully:"
        /\ handle[c] = Null =>
              thrown[c] # NoThrow /\ thrown[c].message \in ConnectMessages
        /\ handle[c] # Null /\ ~IsToolCall(req[c]) =>
              thrown[c] = Err("Unknown tool: " \o req[c].name)
        /\ handle[c] # Null /\ IsToolCall(req[c]) /\ FailsSchema(req[c]) =>
              thrown[c] # NoThrow /\ thrown[c].message \in ValidationMessages

\* C3 witness: one call ended with the script runner's error as an error
\* payload, another with a tool's text.
C3_Witness ==
    \E c1, c2 \in Calls :
        /\ pc[c1] = "done" /\ thrown[c1] \in EvaluateErrors
        /\ resp[c1].isError
        /\ pc[c2] = "done" /\ thrown[c2] = NoThrow
        /\ "isError" \notin DOMAIN resp[c2]

\* The url of a request, if it carries one as a string.
HasUrl(r) == IsToolCall(r) /\ "arguments" \in DOMAIN r /\ "url" \in DOMAIN r.arguments
UrlOf(r) == r.arguments.url.v

\* The url is a well-formed absolute HTTP/HTTPS URL.
IsHttpUrl(url) == url \in {"https://a.test/", "http://a.test/"}
\* The url is a well-formed absolute URL.
IsUrl(url) == url \in {"https://a.test/", "http://a.test/", "ftp://example.com"}

ScriptMissing(r) ==
    r.name = "evaluate_script"
    /\ ("arguments" \notin DOMAIN r \/ "script" \notin DOMAIN r.arguments)
ScriptMissingOrEmpty(r) ==
    r.name = "evaluate_script"
    /\ (ScriptMissing(r) \/ r.arguments.script = Str(""))

IsValidationError(c) ==
    /\ thrown[c] # NoThrow /\ thrown[c].isError
    /\ thrown[c].message \in ValidationMessages

\* C4 as stated: a finished call that got past connecting, whose url is
\* present and not a well-formed HTTP/HTTPS URL, or whose script is missing or
\* empty, was rejected as a validation error and invoked no navigation,
\* retrieval or execution.
C4_AsClaimed ==
    \A c \in Calls :
        /\ pc[c] = "done" /\ handle[c] # Null
        /\ (HasUrl(req[c]) /\ ~IsHttpUrl(UrlOf(req[c]))) \/ ScriptMissingOrEmpty(req[c])
        => IsValidationError(c) /\ log[c] = {}

\* C4 amended: once the connection is established, a call whose url is
\* present and not a well-formed absolute URL (of any scheme), or whose
\* script is missing, is rejected as a validation error; such a call, and a
\* call whose url is well-formed but not HTTP/HTTPS, invokes no navigation,
\* retrieval or execution at any time.
C4_SchemaBeforeHandler ==
    \A c \in Calls : req[c] # NoReq =>
        /\ (HasUrl(req[c]) /\ ~IsUrl(UrlOf(req[c]))) \/ ScriptMissing(req[c]) =>
              /\ log[c] = {}
              /\ pc[c] = "done" /\ handle[c] # Null => IsValidationError(c)
        /\ HasUrl(req[c]) /\ ~IsHttpUrl(UrlOf(req[c])) => log[c] = {}

\* C4 witness: with the page at hand, a call with a malformed url and a call
\* without a script were both rejected as validation errors.
C4_Witness ==
    \E c1, c2 \in Calls :
        /\ pc[c1] = "done" /\ handle[c1] # Null
        /\ HasUrl(req[c1]) /\ UrlOf(req[c1]) = "not a url"
        /\ IsValidationError(c1)
        /\ pc[c2] = "done" /\ handle[c2] # Null
        /\ ScriptMissing(req[c2])
        /\ IsValidationError(c2)

\* The number of nodes of a tree that carry a uid, and their uids.
UidsOf(tree) ==
    { PreOrder(tree, 0)[i].node.uid :
        i \in { j \in 1..Len(PreOrder(tree, 0)) :
                  "uid" \in DOMAIN PreOrder(tree, 0)[j].node } }
UidCount(tree) ==
    Cardinality({ j \in 1..Len(PreOrder(tree, 0)) :
                    "uid" \in DOMAIN PreOrder(tree, 0)[j].node })

\* C6: the header of every take_snapshot that obtained a tree states the
\* number of uids in that call's own tree, and those uids are uid_1..uid_count,
\* whatever other calls ran in between.
C6_HeaderCountsOwnUids ==
    \A c \in Calls : pc[c] = "done" /\ snap[c] # NoTree =>
        /\ thrown[c] = NoThrow
        /\ SubSeq(TextOf(resp[c]), 1, 4)
             = <<"Accessibility Snapshot (", ToString(UidCount(snap[c])),
                 " interactive elements)", "\n">>
        /\ UidsOf(snap[c])
             = { Str("uid_" \o ToString(i)) : i \in 1..UidCount(snap[c]) }

\* C6 witness: two finished snapshots, one with one uid and one with three.
C6_Witness ==
    /\ pc[1] = "done" /\ snap[1] # NoTree /\ UidCount(snap[1]) = 3
    /\ pc[2] = "done" /\ snap[2] # NoTree /\ UidCount(snap[2]) = 1
    /\ TextOf(resp[2])[2] = "1"

\* The url is well-formed and its scheme is neither http nor https.
IsOtherSchemeUrl(url) == url = "ftp://example.com"

\* C7: a call that reaches goto with a well-formed url of another scheme
\* ends with the invalid-protocol message naming the scheme, and page.goto is
\* never invoked for it.
C7_InvalidProtocolBeforeLoad ==
    \A c \in Calls :
        req[c] # NoReq /\ HasUrl(req[c]) /\ IsOtherSchemeUrl(UrlOf(req[c])) =>
            /\ "goto" \notin log[c]
            /\ handle[c] # Null /\ ~ScriptMissing(req[c]) =>
                  /\ pc[c] = "done"
                  /\ log[c] = {}
                  /\ thrown[c]
                       = Err("Invalid protocol: ftp:. Only HTTP and HTTPS are supported.")
                  /\ resp[c] = Caught(thrown[c])

\* C7 witness: an evaluate_script call with a script and an ftp url ended
\* with the invalid-protocol error.
C7_Witness ==
    \E c \in Calls :
        /\ pc[c] = "done" /\ req[c].name = "evaluate_script"
        /\ HasUrl(req[c]) /\ IsOtherSchemeUrl(UrlOf(req[c]))
        /\ thrown[c] # NoThrow /\ handle[c] # Null
        /\ resp[c].isError

\* C8: in the step in which connect()'s error reaches the handler, browser
\* and page are null, connecting is false and the instance that connect()
\* launched, if any, is closed.
C8_ConnectErrorAfterCleanup ==
    [][\A c \in Calls :
          pc[c] \in ConnectPcs /\ pc'[c] = "done" /\ handle'[c] = Null =>
              /\ thrown'[c] # NoThrow
              /\ browser' = Null /\ page' = Null /\ ~connecting'
              /\ created'[c] \notin open']_vars

\* C8 witness: a call's launch succeeded and its page creation failed; the
\* call ended with the error and its browser closed, and the next call
\* launched a fresh browser and got its page.
C8_Witness ==
    /\ pc[1] = "done" /\ created[1] = 1 /\ handle[1] = Null
    /\ thrown[1] \in NewPageErrors /\ 1 \notin open
    /\ created[2] = 2 /\ handle[2] = 2

\* C10: when the process has exited on a signal, no browser instance that
\* was launched is still open.
C10_NoBrowserOpenAtExit == exited => open = {}

-----------------------------------------------------------------------------
(* Claims about FirefoxBrowser (specification SpecBrowser) *)

\* C11: in every reachable state, under any interleaving of connect() and
\* close() calls at their await points, a non-null page implies a non-null
\* browser.
C11_PageImpliesBrowser == page # Null => browser # Null

=============================================================================
